---- MODULE Spec2Model ----
(***************************************************************************)
(* Model of jhsiao.ioutils.fdwrap.FDWrap (the Bridge) together with the    *)
(* Forwarder it starts, the OS pipe between them and an external holder    *)
(* of the exposed descriptor (a spawned process).                          *)
(*                                                                         *)
(* fdwrap.py imports Forwarder from .forwarder, a module of the package    *)
(* that is not among the sources; the Forwarder's copy loop, stop and join *)
(* are modelled from section 4.1 and section 5 of the specification.       *)
(***************************************************************************)
EXTENDS Integers, Sequences, FiniteSets, TLC

\* ------------------------------------------------------------------ bounds
\* How many times a DevNull instance opens the null device at most.
MaxOpens == 3
\* Longest stream content; longer than the pipe holds, so that the Forwarder
\* and the writer block on a full pipe.
MaxLen == 3
\* Capacity of the kernel pipe buffer, scaled down.
PipeCap == 2
\* How many times join() is called at most.
MaxJoins == 2
\* The copy loop's fixed chunk size, scaled down.
ChunkSize == 2

\* The bridge never looks at the bytes it copies: the payload of length n is
\* the bytes 1..n, each tagged by its position, so that a lost, duplicated
\* or reordered byte shows.
PayloadOfLen(n) == [i \in 1..n |-> i]
Payloads == {PayloadOfLen(n) : n \in 0..MaxLen}

Min(a, b) == IF a < b THEN a ELSE b

Take(s, k) == SubSeq(s, 1, k)
Drop(s, k) == SubSeq(s, k + 1, Len(s))

\* ------------------------------------------------------------------- state
VARIABLES
    mode,       \* the mode string given to FDWrap, as its set of characters
    payload,    \* read mode: the content of the original source stream;
                \* write mode: the bytes the external writer wants to write
    srcPos,     \* read mode: read position of the original stream
    origOut,    \* write mode: bytes the original sink stream has accepted
    origOpen,   \* the original stream object (self._orig) is open
    pipe,       \* bytes in the kernel pipe buffer
    fileOpen,   \* the Bridge's descriptor of the exposed end is open (it
                \* is closed through self.file, its file object)
    privOpen,   \* the descriptor of the private end is open (it is closed
                \* through the Forwarder's file object)
    closers,    \* per pipe end: who closed it at OS level, in order
    extOpen,    \* the external holder's copy of the exposed descriptor
    spawned,    \* the exposed descriptor was handed to an external holder
    extGot,     \* read mode: bytes the external consumer has read
    extEof,     \* read mode: the external consumer has observed end-of-data
    wrPos,      \* write mode: number of payload bytes the pipe has accepted
    fpc,        \* Forwarder's position in its copy loop
    chunk,      \* Forwarder: the part of the current chunk not yet written
    stopReq,    \* Forwarder: stop() was requested
    fresult,    \* Forwarder: recorded result
    cpc,        \* the caller's position (idle, or inside join()/close());
                \* "raised" when the constructor raised and no Bridge exists
    closeCalled,\* close() has been called on the Bridge
    joinLog,    \* what each completed join() returned
    lastOp,     \* the Bridge operation that returned last
    lastRet,    \* what it returned
    raised,     \* whether it raised
    dn,         \* a DevNull instance and the descriptors it has opened
    br          \* a BytesReader instance

vars == <<mode, payload, srcPos, origOut, origOpen, pipe, fileOpen, privOpen,
          closers, extOpen, spawned, extGot, extEof, wrPos, fpc, chunk,
          stopReq, fresult, cpc, closeCalled, joinLog, lastOp, lastRet, raised,
          dn, br>>

pipeVars == <<pipe, fileOpen, privOpen, closers>>
extVars == <<extOpen, spawned, extGot, extEof, wrPos>>
fwdVars == <<fpc, chunk, stopReq, fresult>>
origVars == <<srcPos, origOut, origOpen>>
callVars == <<cpc, closeCalled, joinLog, lastOp, lastRet, raised>>
adapterVars == <<dn, br>>
bridgeVars == <<mode, payload, origVars, pipeVars, extVars, fwdVars, callVars>>

ValidModes == {{"r", "b"}, {"w", "b"}}

\* The mode strings FDWrap is constructed with: the documented ones, one
\* naming both 'r' and 'w' ("rwb") and two naming neither ("ab", "b").
Modes == ValidModes \cup {{"r", "w", "b"}, {"a", "b"}, {"b"}}

\* --------------------------------------------------------- FDWrap.__init__
\* 'r' in mode selects the read branch, anything else the write branch.
IsRead(m) == "r" \in m

\* The ownership flags FDWrap passes to Forwarder(source, sink, ., .).
OwnsSourceAlways(m) == TRUE
OwnsSinkNever(m) == FALSE
OwnsSource(m) == IF IsRead(m) THEN FALSE ELSE TRUE
OwnsSink(m) == IF IsRead(m) THEN TRUE ELSE FALSE

\* os.fdopen(fd, mode) accepts a mode naming exactly one of create, read,
\* write and append, and raises ValueError otherwise, leaving fd open.
FdopenAccepts(m) == Cardinality(m \cap {"r", "w", "a", "x"}) = 1

\* The pipe end wrapped as self.file and the one given to the Forwarder.
ExposedEnd(m) == IF IsRead(m) THEN "r" ELSE "w"
PrivateEnd(m) == IF IsRead(m) THEN "w" ELSE "r"

\* DevNull.__init__ and BytesReader.__init__ (the instances are at rest in
\* the bridge's specification).
DnNew(sp, avail) ==
    [sp |-> sp, avail |-> avail, f |-> 0, open |-> {}, opens |-> 0,
     op |-> "init", ret |-> "none"]
BrNew(n) ==
    [data |-> PayloadOfLen(n), pos |-> 0, op |-> "init", ret |-> "none",
     arg |-> <<>>]

\* __init__: os.pipe(), then os.fdopen on the exposed end, which raises on a
\* mode it rejects before any file object or Forwarder exists; otherwise
\* the Forwarder is started on the other end.
BridgeInit ==
    /\ mode \in Modes
    /\ payload \in Payloads
    /\ srcPos = 0
    /\ origOut = <<>>
    /\ origOpen = TRUE
    /\ pipe = <<>>
    /\ fileOpen = TRUE
    /\ privOpen = TRUE
    /\ closers = [e \in {"r", "w"} |-> <<>>]
    /\ extOpen = FALSE
    /\ spawned = FALSE
    /\ extGot = <<>>
    /\ extEof = FALSE
    /\ wrPos = 0
    /\ fpc = IF FdopenAccepts(mode) THEN "top" ELSE "unstarted"
    /\ chunk = <<>>
    /\ stopReq = FALSE
    /\ fresult = "none"
    /\ cpc = IF FdopenAccepts(mode) THEN "idle" ELSE "raised"
    /\ closeCalled = FALSE
    /\ joinLog = <<>>
    /\ lastOp = "none"
    /\ lastRet = "none"
    /\ raised = ~FdopenAccepts(mode)

Init ==
    /\ BridgeInit
    /\ dn = DnNew(FALSE, TRUE)
    /\ br = BrNew(0)

\* ------------------------------------------------------------- the OS pipe
\* Open descriptors on each end of the pipe.
ReadersOpen ==
    IF IsRead(mode) THEN fileOpen \/ extOpen ELSE privOpen
WritersOpen ==
    IF IsRead(mode) THEN privOpen ELSE fileOpen \/ extOpen
PipeSpace == PipeCap - Len(pipe)

\* ------------------------------------------------- the external descriptor
\* Read mode: the consumer reads whatever part of the buffer it asks for.
ExtRead ==
    /\ IsRead(mode) /\ extOpen /\ ~extEof /\ Len(pipe) > 0
    /\ \E k \in 1..Len(pipe) :
        /\ extGot' = extGot \o Take(pipe, k)
        /\ pipe' = Drop(pipe, k)
    /\ UNCHANGED <<adapterVars, mode, payload, origVars, fileOpen, privOpen, closers,
                   extOpen, spawned, extEof, wrPos, fwdVars, callVars>>

\* Read mode: a read of the empty pipe returns end-of-data once no write
\* end is open.
ExtSeeEof ==
    /\ IsRead(mode) /\ extOpen /\ ~extEof
    /\ Len(pipe) = 0 /\ ~WritersOpen
    /\ extEof' = TRUE
    /\ UNCHANGED <<adapterVars, mode, payload, origVars, pipeVars, extOpen, spawned,
                   extGot, wrPos, fwdVars, callVars>>

\* Write mode: the writer writes the next chunk of the payload, of any size
\* the buffer has room for; with no reader left the write fails (EPIPE) and
\* the writer gives up.
ExtWrite ==
    /\ ~IsRead(mode) /\ extOpen /\ wrPos < Len(payload)
    /\ IF ~ReadersOpen
       THEN /\ extOpen' = FALSE
            /\ UNCHANGED <<pipe, wrPos>>
       ELSE /\ PipeSpace > 0
            /\ \E k \in 1..Min(PipeSpace, Len(payload) - wrPos) :
                /\ pipe' = pipe \o SubSeq(payload, wrPos + 1, wrPos + k)
                /\ wrPos' = wrPos + k
            /\ UNCHANGED extOpen
    /\ UNCHANGED <<adapterVars, mode, payload, origVars, fileOpen, privOpen, closers,
                   spawned, extGot, extEof, fwdVars, callVars>>

\* The external holder closes its copy of the descriptor (or exits).
ExtClose ==
    /\ extOpen
    /\ extOpen' = FALSE
    /\ UNCHANGED <<adapterVars, mode, payload, origVars, pipeVars, spawned, extGot,
                   extEof, wrPos, fwdVars, callVars>>

\* ---------------------------------------------------------- the Forwarder
\* Which side of the copy loop is the caller's stream, and what the loop
\* closes when it exits (close source if ownsSource, sink if ownsSink).
SourceIsOrig == IsRead(mode)
ClosesOrig == IF SourceIsOrig THEN OwnsSource(mode) ELSE OwnsSink(mode)
ClosesPriv == IF SourceIsOrig THEN OwnsSink(mode) ELSE OwnsSource(mode)

InFlight == {"reading", "writing"}
Boundary == {"top", "wbound"}

\* What is left of a chunk of which the sink accepted the first k bytes.
RemainderDropped(c, k) == <<>>
Remainder(c, k) == Drop(c, k)

\* The loop ends: the result is recorded when it leaves the loop, the owned
\* sides are closed by FwdExit.
LeaveLoop(res) ==
    /\ fpc' = "exiting"
    /\ fresult' = res
    /\ chunk' = <<>>

\* stop(): only signals; the loop sees the request at its next boundary.
ForwarderStop == stopReq' = TRUE

\* join() returns once the loop has exited and the owned sides are closed.
ForwarderJoined == fpc = "done"

\* Loop boundary with no stop requested: issue the next read.
FwdStartReadEarly ==
    /\ fpc \in Boundary /\ ~stopReq
    /\ fpc' = "reading"
    /\ UNCHANGED <<adapterVars, mode, payload, origVars, pipeVars, extVars,
                   chunk, stopReq, fresult, callVars>>
FwdStartRead ==
    /\ fpc = "top" /\ ~stopReq
    /\ fpc' = "reading"
    /\ UNCHANGED <<adapterVars, mode, payload, origVars, pipeVars, extVars, chunk,
                   stopReq, fresult, callVars>>

\* The read returns: a chunk, end-of-data, or a failure.
FwdFinishRead ==
    /\ fpc = "reading"
    /\ IF SourceIsOrig
       THEN /\ \/ /\ origOpen /\ srcPos < Len(payload)
                  /\ \E k \in 1..Min(ChunkSize, Len(payload) - srcPos) :
                      /\ chunk' = SubSeq(payload, srcPos + 1, srcPos + k)
                      /\ srcPos' = srcPos + k
                  /\ fpc' = "wbound"
                  /\ UNCHANGED fresult
               \/ /\ origOpen /\ srcPos = Len(payload)
                  /\ LeaveLoop("eof")
                  /\ UNCHANGED srcPos
               \/ /\ LeaveLoop("error")
                  /\ UNCHANGED srcPos
            /\ UNCHANGED pipe
       ELSE /\ \/ /\ Len(pipe) > 0
                  /\ LET k == Min(ChunkSize, Len(pipe)) IN
                      /\ chunk' = Take(pipe, k)
                      /\ pipe' = Drop(pipe, k)
                  /\ fpc' = "wbound"
                  /\ UNCHANGED fresult
               \/ /\ Len(pipe) = 0 /\ ~WritersOpen
                  /\ LeaveLoop("eof")
                  /\ UNCHANGED pipe
            /\ UNCHANGED srcPos
    /\ UNCHANGED <<adapterVars, mode, payload, origOut, origOpen, fileOpen, privOpen,
                   closers, extVars, stopReq, callVars>>

\* Write boundary with no stop requested: issue the next write.
FwdStartWrite ==
    /\ fpc = "wbound" /\ ~stopReq
    /\ fpc' = "writing"
    /\ UNCHANGED <<adapterVars, mode, payload, origVars, pipeVars, extVars, chunk,
                   stopReq, fresult, callVars>>

\* The write returns: the sink accepted all or part of the chunk, or failed.
\* A partly written chunk is continued before the next read.
FwdFinishWrite ==
    /\ fpc = "writing"
    /\ IF SourceIsOrig
       THEN /\ IF ~ReadersOpen
               THEN /\ LeaveLoop("error")
                    /\ UNCHANGED pipe
               ELSE /\ PipeSpace > 0
                    /\ LET k == Min(PipeSpace, Len(chunk)) IN
                        /\ pipe' = pipe \o Take(chunk, k)
                        /\ chunk' = Remainder(chunk, k)
                        /\ fpc' = IF Remainder(chunk, k) = <<>>
                                  THEN "top" ELSE "wbound"
                    /\ UNCHANGED fresult
            /\ UNCHANGED origOut
       ELSE /\ \/ /\ origOpen
                  /\ \E k \in 1..Len(chunk) :
                      /\ origOut' = origOut \o Take(chunk, k)
                      /\ chunk' = Remainder(chunk, k)
                      /\ fpc' = IF Remainder(chunk, k) = <<>>
                                THEN "top" ELSE "wbound"
                  /\ UNCHANGED fresult
               \/ /\ LeaveLoop("error")
                  /\ UNCHANGED origOut
            /\ UNCHANGED pipe
    /\ UNCHANGED <<adapterVars, mode, payload, srcPos, origOpen, fileOpen, privOpen,
                   closers, extVars, stopReq, callVars>>

\* A stop request seen at a boundary: leave without further I/O.
FwdStopExit ==
    /\ fpc \in Boundary /\ stopReq
    /\ LeaveLoop("stopped")
    /\ UNCHANGED <<adapterVars, mode, payload, origVars, pipeVars, extVars, stopReq,
                   callVars>>

\* On loop exit, for any reason: close what the Forwarder owns.
FwdExit ==
    /\ fpc = "exiting"
    /\ fpc' = "done"
    /\ IF ClosesPriv
       THEN /\ privOpen' = FALSE
            /\ closers' = [closers EXCEPT ![PrivateEnd(mode)] =
                                            Append(@, "forwarder")]
       ELSE UNCHANGED <<privOpen, closers>>
    /\ origOpen' = IF ClosesOrig THEN FALSE ELSE origOpen
    /\ UNCHANGED <<adapterVars, mode, payload, srcPos, origOut, pipe, fileOpen, extVars,
                   chunk, stopReq, fresult, callVars>>

FwdNext ==
    \/ FwdStartRead
    \/ FwdFinishRead
    \/ FwdStartWrite
    \/ FwdFinishWrite
    \/ FwdStopExit
    \/ FwdExit

\* ------------------------------------------------------ FDWrap operations
\* self.file.close(): closing a file object closes its descriptor once; a
\* second close() of the same object does nothing.
ExposedCloseRaw ==
    /\ fileOpen' = FALSE
    /\ closers' = [closers EXCEPT ![ExposedEnd(mode)] = Append(@, "bridge")]
ExposedClose ==
    /\ fileOpen' = FALSE
    /\ closers' = IF fileOpen
                  THEN [closers EXCEPT ![ExposedEnd(mode)] = Append(@, "bridge")]
                  ELSE closers

Returns(op, ret, exc) ==
    /\ lastOp' = op
    /\ lastRet' = ret
    /\ raised' = exc

\* __exit__: close the exposed end, nothing else.
Exit ==
    /\ cpc = "idle"
    /\ ExposedClose
    /\ Returns("exit", "none", FALSE)
    /\ UNCHANGED <<adapterVars, mode, payload, origVars, pipe, privOpen, extVars, fwdVars,
                   cpc, closeCalled, joinLog>>

\* join(), first half: self.file.close(), then the caller blocks in
\* self._forward.join().
JoinBeginNoClose ==
    /\ cpc = "idle" /\ Len(joinLog) < MaxJoins
    /\ UNCHANGED <<fileOpen, closers>>
    /\ cpc' = "joining"
    /\ UNCHANGED <<adapterVars, mode, payload, origVars, pipe, privOpen, extVars, fwdVars,
                   closeCalled, joinLog, lastOp, lastRet, raised>>
JoinBegin ==
    /\ cpc = "idle" /\ Len(joinLog) < MaxJoins
    /\ ExposedClose
    /\ cpc' = "joining"
    /\ UNCHANGED <<adapterVars, mode, payload, origVars, pipe, privOpen, extVars, fwdVars,
                   closeCalled, joinLog, lastOp, lastRet, raised>>

\* join(), second half: self._forward.join() has returned; return self._orig.
JoinEndNoWait ==
    /\ cpc = "joining"
    /\ cpc' = "idle"
    /\ joinLog' = Append(joinLog, [ret |-> "orig", res |-> fresult])
    /\ Returns("join", "orig", FALSE)
    /\ UNCHANGED <<adapterVars, mode, payload, origVars, pipeVars, extVars, fwdVars,
                   closeCalled>>
JoinEnd ==
    /\ cpc = "joining"
    /\ ForwarderJoined
    /\ cpc' = "idle"
    /\ joinLog' = Append(joinLog, [ret |-> "orig", res |-> fresult])
    /\ Returns("join", "orig", FALSE)
    /\ UNCHANGED <<adapterVars, mode, payload, origVars, pipeVars, extVars, fwdVars,
                   closeCalled>>

\* detach(): self._forward.stop(); return self._orig.  The exposed end and
\* the original stream are left as they are.
DetachNoStop ==
    /\ cpc = "idle"
    /\ Returns("detach", "orig", FALSE)
    /\ UNCHANGED <<adapterVars, mode, payload, origVars, pipeVars, extVars, fwdVars, cpc,
                   closeCalled, joinLog>>
DetachClosesPrivate ==
    /\ cpc = "idle"
    /\ ForwarderStop
    /\ privOpen' = FALSE
    /\ closers' = IF privOpen
                  THEN [closers EXCEPT ![PrivateEnd(mode)] = Append(@, "bridge")]
                  ELSE closers
    /\ Returns("detach", "orig", FALSE)
    /\ UNCHANGED <<adapterVars, mode, payload, origVars, pipe, fileOpen, extVars, fpc,
                   chunk, fresult, cpc, closeCalled, joinLog>>
DetachReturnsForwarder ==
    /\ cpc = "idle"
    /\ ForwarderStop
    /\ Returns("detach", "forwarder", FALSE)
    /\ UNCHANGED <<adapterVars, mode, payload, origVars, pipeVars, extVars, fpc, chunk,
                   fresult, cpc, closeCalled, joinLog>>
DetachRaisesFailure ==
    /\ cpc = "idle"
    /\ ForwarderStop
    /\ IF fresult = "error"
       THEN Returns("detach", "none", TRUE)
       ELSE Returns("detach", "orig", FALSE)
    /\ UNCHANGED <<adapterVars, mode, payload, origVars, pipeVars, extVars, fpc, chunk,
                   fresult, cpc, closeCalled, joinLog>>
Detach ==
    /\ cpc = "idle"
    /\ ForwarderStop
    /\ Returns("detach", "orig", FALSE)
    /\ UNCHANGED <<adapterVars, mode, payload, origVars, pipeVars, extVars, fpc, chunk,
                   fresult, cpc, closeCalled, joinLog>>

\* close(), first half: self.detach() ...
CloseBegin ==
    /\ cpc = "idle"
    /\ ForwarderStop
    /\ closeCalled' = TRUE
    /\ cpc' = "closing"
    /\ UNCHANGED <<adapterVars, mode, payload, origVars, pipeVars, extVars, fpc, chunk,
                   fresult, joinLog, lastOp, lastRet, raised>>

\* ... second half: .close() on the stream detach() returned.
CloseEnd ==
    /\ cpc = "closing"
    /\ origOpen' = FALSE
    /\ cpc' = "idle"
    /\ Returns("close", "none", FALSE)
    /\ UNCHANGED <<adapterVars, mode, payload, srcPos, origOut, pipeVars, extVars, fwdVars,
                   closeCalled, joinLog>>

\* fileno(): self.file.fileno(), which raises on a closed file object.  The
\* caller may hand the descriptor to an external process, which then holds
\* its own copy of it.
Fileno ==
    /\ cpc = "idle"
    /\ IF fileOpen
       THEN /\ Returns("fileno", "fd", FALSE)
            /\ \/ UNCHANGED <<extOpen, spawned>>
               \/ /\ ~spawned
                  /\ extOpen' = TRUE
                  /\ spawned' = TRUE
       ELSE /\ Returns("fileno", "none", TRUE)
            /\ UNCHANGED <<extOpen, spawned>>
    /\ UNCHANGED <<adapterVars, mode, payload, origVars, pipeVars, extGot, extEof, wrPos,
                   fwdVars, cpc, closeCalled, joinLog>>

\* ----------------------------------------------------------- specification
Next ==
    \/ Exit
    \/ JoinBegin
    \/ JoinEnd
    \/ Detach
    \/ CloseBegin
    \/ CloseEnd
    \/ Fileno
    \/ ExtRead
    \/ ExtSeeEof
    \/ ExtWrite
    \/ ExtClose
    \/ FwdStartRead
    \/ FwdFinishRead
    \/ FwdStartWrite
    \/ FwdFinishWrite
    \/ FwdStopExit
    \/ FwdExit

Spec == Init /\ [][Next]_vars

\* The Forwarder runs in a thread of its own, which the scheduler keeps
\* running: a step of the copy loop that stays possible is taken.
FairSpec == Spec /\ WF_vars(FwdNext)

\* The same, in the executions in which the external holder of the exposed
\* descriptor eventually closes its copy and the caller's thread, blocked
\* in join(), runs again once the Forwarder has exited.
JoinFairSpec ==
    Spec /\ WF_vars(FwdNext) /\ WF_vars(ExtClose) /\ WF_vars(JoinEnd)

\* ------------------------------------------------------------------ claims
\* The bytes written through the exposed descriptor so far (write mode).
Written == Take(payload, wrPos)

\* C1: write-mode integrity.  Once join() has returned in write mode, and
\* the Forwarder was neither stopped nor failed, the original sink stream
\* has received exactly the bytes written to the exposed write end: same
\* order, nothing missing, nothing duplicated, for every chunking of the
\* writes, every interleaving and the pipe's capacity.
C1_WriteIntegrity ==
    (~IsRead(mode) /\ Len(joinLog) > 0 /\ fresult \notin {"stopped", "error"})
        => origOut = Written

C1_Witness ==
    /\ ~IsRead(mode) /\ Len(joinLog) > 0 /\ fresult = "eof"
    /\ wrPos = MaxLen /\ origOut = payload

\* C2: read-mode integrity.  A consumer that has read the exposed read end
\* up to end-of-data, the Forwarder having been neither stopped nor failed,
\* has observed exactly the content of the original source stream.
C2_ReadIntegrity ==
    (IsRead(mode) /\ extEof /\ fresult \notin {"stopped", "error"})
        => extGot = payload

C2_Witness ==
    /\ IsRead(mode) /\ extEof /\ fresult = "eof"
    /\ Len(payload) = MaxLen /\ extGot = payload

\* C3: end-of-data propagation in read mode.  The consumer observes
\* end-of-data only when the Forwarder's write end is closed, and, the
\* source having returned a zero-length read, only after it has received
\* every byte the source produced; and once the source has returned a
\* zero-length read the Forwarder eventually closes its write end.
C3_EofPropagation ==
    /\ []((IsRead(mode) /\ extEof) => ~privOpen)
    /\ []((IsRead(mode) /\ extEof /\ fresult = "eof")
            => (srcPos = Len(payload) /\ extGot = Take(payload, srcPos)))
    /\ ((IsRead(mode) /\ fresult = "eof") ~> ~privOpen)

C3_Witness ==
    /\ IsRead(mode) /\ extEof /\ fresult = "eof" /\ ~privOpen
    /\ fileOpen /\ Len(extGot) > PipeCap

\* C4: the join() protocol.  While join() waits for the Forwarder the
\* exposed end is already closed; when join() has returned, the exposed end
\* is closed, the copy loop has exited with its owned pipe end closed, and
\* the returned object is the original stream, open unless close() was
\* called on the Bridge.
C4_JoinProtocol ==
    /\ (cpc = "joining" => ~fileOpen)
    /\ (lastOp = "join" =>
            /\ ~fileOpen
            /\ fpc = "done"
            /\ ~privOpen
            /\ lastRet = "orig"
            /\ (origOpen \/ closeCalled))

C4_Witness ==
    /\ lastOp = "join" /\ lastRet = "orig" /\ origOpen /\ ~closeCalled
    /\ fpc = "done" /\ ~fileOpen /\ ~privOpen

\* C5: join() is idempotent.  A join() called after one has returned does
\* not block (the Forwarder's join is already satisfied), closes no
\* descriptor a second time, does not raise, and returns what the first
\* call returned.
C5_JoinIdempotent ==
    /\ ((Len(joinLog) >= 1 /\ cpc = "joining") => ForwarderJoined)
    /\ \A e \in {"r", "w"} : Len(closers[e]) <= 1
    /\ \A i \in 1..Len(joinLog) : joinLog[i] = joinLog[1]
    /\ (lastOp = "join" => ~raised)

C5_Witness ==
    /\ Len(joinLog) >= 2 /\ lastOp = "join"
    /\ Len(closers["r"]) = 1 /\ Len(closers["w"]) = 1

\* C6: cooperative cancellation.  Once stop() has been requested (detach()
\* or close() has run), the copy loop starts no new read or write, the only
\* step it takes from a boundary is to leave the loop, and from a boundary
\* it reaches its terminal state, so that join() returns, whether or not
\* the source has reached end-of-data.
C6_CooperativeStop ==
    /\ [][(stopReq \/ lastOp \in {"detach", "close"})
            => ~(fpc' \in InFlight /\ fpc \notin InFlight)]_vars
    /\ [][(stopReq /\ fpc \in Boundary /\ fpc' # fpc)
            => (fpc' = "exiting" /\ fresult' = "stopped")]_vars
    /\ ((stopReq /\ fpc \in Boundary) ~> ForwarderJoined)

C6_Witness ==
    /\ IsRead(mode) /\ lastOp = "join" /\ fresult = "stopped"
    /\ srcPos < Len(payload)

\* C7: the Bridge closes the caller's stream only through close().  While
\* close() has not been called the original stream is open, whatever
\* __exit__, join() and detach() did and however the Forwarder exited; when
\* close() has returned the stream is closed and the Forwarder has been
\* asked to stop.
C7_OrigClosedOnlyByClose ==
    /\ (~closeCalled => origOpen)
    /\ (lastOp = "close" => (~origOpen /\ stopReq))

C7_Witness ==
    /\ ~closeCalled /\ origOpen /\ fpc = "done" /\ stopReq
    /\ Len(joinLog) > 0 /\ ~fileOpen

\* The Forwarder has a read or write on its pipe end in flight.
PipeIoInFlight ==
    IF SourceIsOrig THEN fpc = "writing" ELSE fpc = "reading"

\* C8: split ownership of the pipe.  The exposed end is closed only by the
\* Bridge, the private end only by the Forwarder, no end is closed twice at
\* OS level, and the Forwarder has no read or write in flight on its pipe
\* end once that end is closed.
C8_SplitOwnership ==
    /\ \A i \in 1..Len(closers[ExposedEnd(mode)]) :
            closers[ExposedEnd(mode)][i] = "bridge"
    /\ \A i \in 1..Len(closers[PrivateEnd(mode)]) :
            closers[PrivateEnd(mode)][i] = "forwarder"
    /\ \A e \in {"r", "w"} : Len(closers[e]) <= 1
    /\ (PipeIoInFlight => privOpen)

C8_Witness ==
    /\ closers[ExposedEnd(mode)] = <<"bridge">>
    /\ closers[PrivateEnd(mode)] = <<"forwarder">>
    /\ closeCalled /\ Len(joinLog) > 0

C10_FailureRetained ==
    /\ [](fresult = "error" => fpc \in {"exiting", "done"})
    /\ [][fresult = "error" => fresult' = "error"]_vars
    /\ [](lastOp = "detach" => ~raised)
    /\ [](\A i \in 1..Len(joinLog) :
            joinLog[i].res = "error" => fresult = "error")

C10_Witness ==
    /\ fresult = "error" /\ Len(joinLog) > 0 /\ joinLog[1].res = "error"
    /\ lastOp = "detach" /\ ~raised

\* ------------------------------------------------------------------ DevNull
\* The attributes a DevNull instance has: the class body binds the name
\* DEVNULL, __init__ sets _is_sp and _f.
DevNullAttrs == {"DEVNULL", "_is_sp", "_f"}

\* self._DEVNULL: the value of the attribute, or AttributeError.
DnLookupDevnull ==
    IF "_DEVNULL" \in DevNullAttrs
    THEN (IF dn.avail THEN "DEVNULL" ELSE "None")
    ELSE "AttributeError"

\* close(): close the file opened by fileno(), if any, and forget it.
DnCloseLeak ==
    /\ dn' = [dn EXCEPT !.f = 0, !.op = "close", !.ret = "none"]
    /\ UNCHANGED <<bridgeVars, br>>
DnClose ==
    /\ dn' = [dn EXCEPT !.open = IF dn.f # 0 THEN dn.open \ {dn.f} ELSE @,
                        !.f = 0, !.op = "close", !.ret = "none"]
    /\ UNCHANGED <<bridgeVars, br>>

\* fileno(): in subprocess mode `self._DEVNULL is not None` is evaluated
\* first; otherwise the null device is opened unless a file is held, and
\* the held file's descriptor is returned.  A descriptor is identified by
\* the serial number of the open() that made it.
DnFileno ==
    /\ IF dn.sp /\ DnLookupDevnull = "AttributeError"
       THEN dn' = [dn EXCEPT !.op = "fileno", !.ret = "AttributeError"]
       ELSE IF dn.sp /\ DnLookupDevnull # "None"
       THEN dn' = [dn EXCEPT !.op = "fileno", !.ret = "DEVNULL"]
       ELSE IF dn.f = 0
       THEN /\ dn.opens < MaxOpens
            /\ dn' = [dn EXCEPT !.opens = @ + 1, !.f = dn.opens + 1,
                                !.open = @ \cup {dn.opens + 1},
                                !.op = "fileno", !.ret = dn.opens + 1]
       ELSE dn' = [dn EXCEPT !.op = "fileno", !.ret = dn.f]
    /\ UNCHANGED <<bridgeVars, br>>

\* write(buf) returns len(buf); read(size) returns b''; tell() returns 0.
DnWrite ==
    /\ \E n \in 0..MaxLen : dn' = [dn EXCEPT !.op = "write", !.ret = n]
    /\ UNCHANGED <<bridgeVars, br>>
DnRead ==
    /\ dn' = [dn EXCEPT !.op = "read", !.ret = 0]
    /\ UNCHANGED <<bridgeVars, br>>

\* seek(offset, whence) returns 0.
DnSeek ==
    /\ dn' = [dn EXCEPT !.op = "seek", !.ret = 0]
    /\ UNCHANGED <<bridgeVars, br>>

DevNullInit ==
    /\ BridgeInit
    /\ mode = {"r", "b"}
    /\ payload = <<>>
    /\ dn \in {DnNew(sp, avail) : sp \in BOOLEAN, avail \in BOOLEAN}
    /\ br = BrNew(0)

DevNullNext ==
    \/ DnFileno
    \/ DnClose
    \/ DnWrite
    \/ DnRead
    \/ DnSeek

DevNullSpec == DevNullInit /\ [][DevNullNext]_vars

\* A mode naming exactly one of 'r' and 'w'.
ExactlyOneDirection(m) == Cardinality(m \cap {"r", "w"}) = 1

\* C11: a mode that names both 'r' and 'w', or neither, makes the
\* constructor raise; no such mode yields a Bridge.
C11_InvalidModeRejected ==
    ~ExactlyOneDirection(mode) => (cpc = "raised" /\ raised)

\* C12: fileno() raises once the Bridge (constructed with a documented
\* mode) is terminal: after join() has returned, and equally after detach()
\* or close() has returned.
C12_FilenoFailsWhenTerminal ==
    (mode \in ValidModes /\ lastOp = "fileno"
        /\ (Len(joinLog) > 0 \/ stopReq)) => raised

\* C13: when detach() has returned (on a Bridge constructed with a
\* documented mode), the exposed pipe end is closed.
C13_DetachClosesExposed ==
    (mode \in ValidModes /\ lastOp = "detach") => ~fileOpen

\* C14: DevNull descriptor lifecycle outside subprocess mode.  The instance
\* holds at most one open descriptor, the one fileno() returns; fileno()
\* keeps returning the held descriptor until close(); after close() nothing
\* the instance opened is open.
C14_DevNullLifecycle ==
    /\ [](~dn.sp =>
            /\ Cardinality(dn.open) <= 1
            /\ dn.open = (IF dn.f = 0 THEN {} ELSE {dn.f})
            /\ (dn.op = "fileno" => (dn.ret = dn.f /\ dn.f # 0))
            /\ (dn.op = "close" => dn.open = {}))
    /\ [][(~dn.sp /\ dn.f # 0 /\ dn'.op # "close") => dn'.f = dn.f]_vars

C14_Witness ==
    /\ ~dn.sp /\ dn.op = "fileno" /\ dn.opens >= 2 /\ dn.open = {dn.ret}

\* C15: in subprocess mode with subprocess.DEVNULL available, every
\* fileno() returns subprocess.DEVNULL and the null device is never opened.
C15_SubprocessDevnull ==
    (dn.sp /\ dn.avail) =>
        /\ dn.opens = 0 /\ dn.open = {}
        /\ (dn.op = "fileno" => dn.ret = "DEVNULL")

\* C20: when the constructor has raised, both descriptors of the pipe it
\* allocated are closed and no Forwarder is running.
C20_FailedConstructionCleansUp ==
    cpc = "raised" =>
        (~fileOpen /\ ~privOpen /\ fpc \in {"unstarted", "done"})

\* -------------------------------------------------------------- BytesReader
Max(a, b) == IF a > b THEN a ELSE b

\* A size argument: None, or an integer.
SizeArgs == {<<"none", 0>>} \cup {<<"int", n>> : n \in -1..(MaxLen + 1)}
\* Seek offsets, negative and past the end included; whence is SEEK_SET (0),
\* SEEK_CUR (1) or SEEK_END (2).
SeekOffsets == -(MaxLen + 1)..(MaxLen + 1)
Whences == {0, 1, 2}

\* readview(size): the position after the read.
ReadviewEnd(pos, dlen, size) ==
    IF size[1] = "none" THEN dlen
    ELSE IF size[2] < 0 THEN dlen
    ELSE Min(pos + size[2], dlen)

\* data[a:b] for 0 <= a.
Slice(data, a, b) == SubSeq(data, a + 1, Min(b, Len(data)))

\* read(size) is readview(size).tobytes(): the same bytes, the same move.
BrReadview(name) ==
    /\ \E size \in SizeArgs :
        LET end == ReadviewEnd(br.pos, Len(br.data), size) IN
        br' = [br EXCEPT !.pos = end, !.op = name,
                         !.ret = Slice(br.data, br.pos, end),
                         !.arg = <<size[2], br.pos>>]
    /\ UNCHANGED <<bridgeVars, dn>>
BrRead == BrReadview("read")
BrReadviewCall == BrReadview("readview")

\* readinto(buf): size = min(len(buf), len(data) - pos); pos += size.
BrReadinto ==
    /\ \E buflen \in 0..(MaxLen + 1) :
        LET size == Min(buflen, Len(br.data) - br.pos) IN
        br' = [br EXCEPT !.pos = br.pos + size, !.op = "readinto",
                         !.ret = size, !.arg = <<buflen, br.pos>>]
    /\ UNCHANGED <<bridgeVars, dn>>

\* seek(pos, whence): the target, and max(min(dlen, target), 0).
SeekTarget(off, whence, pos, dlen) ==
    IF whence = 1 THEN off + pos
    ELSE IF whence = 2 THEN off + dlen
    ELSE off
SeekClampNoUpper(dlen, t) == Max(t, 0)
SeekClamp(dlen, t) == Max(Min(dlen, t), 0)

BrSeek ==
    /\ \E off \in SeekOffsets, whence \in Whences :
        LET new == SeekClamp(Len(br.data),
                             SeekTarget(off, whence, br.pos, Len(br.data))) IN
        br' = [br EXCEPT !.pos = new, !.op = "seek", !.ret = new,
                         !.arg = <<off, whence, br.pos>>]
    /\ UNCHANGED <<bridgeVars, dn>>

BrTell ==
    /\ br' = [br EXCEPT !.op = "tell", !.ret = br.pos, !.arg = <<>>]
    /\ UNCHANGED <<bridgeVars, dn>>

BytesReaderInit ==
    /\ BridgeInit
    /\ mode = {"r", "b"}
    /\ payload = <<>>
    /\ dn = DnNew(FALSE, TRUE)
    /\ br \in {BrNew(n) : n \in 0..MaxLen}

BytesReaderNext ==
    \/ BrRead
    \/ BrReadviewCall
    \/ BrReadinto
    \/ BrSeek
    \/ BrTell

BytesReaderSpec == BytesReaderInit /\ [][BytesReaderNext]_vars

\* The position a seek(off, whence) from position pos must end at: the
\* target, brought into 0..dlen.
C17_Expected(off, whence, pos, dlen) ==
    LET t == IF whence = 0 THEN off
             ELSE IF whence = 1 THEN pos + off
             ELSE dlen + off
    IN  IF t < 0 THEN 0 ELSE IF t > dlen THEN dlen ELSE t

\* C17: BytesReader position invariant.  After any sequence of read,
\* readview, readinto, seek and tell, 0 <= pos <= len(data); seek returns
\* the target clamped into that range and leaves pos there; tell returns
\* pos.
C17_PositionInvariant ==
    /\ 0 <= br.pos /\ br.pos <= Len(br.data)
    /\ (br.op = "seek" =>
            /\ br.ret = C17_Expected(br.arg[1], br.arg[2], br.arg[3],
                                     Len(br.data))
            /\ br.pos = br.ret)
    /\ (br.op = "tell" => br.ret = br.pos)

C17_Witness ==
    /\ br.op = "seek" /\ Len(br.data) = MaxLen
    /\ br.arg[1] > MaxLen /\ br.arg[2] = 1 /\ br.arg[3] > 0
    /\ br.pos = MaxLen

\* ------------------------------------------------- the copy loop, continued
\* The bytes the copy loop has read from its source, and the bytes its sink
\* has accepted (in read mode the sink is the pipe, whose bytes are in the
\* buffer or with the consumer).
SourceReadSoFar ==
    IF SourceIsOrig THEN Take(payload, srcPos)
    ELSE Take(payload, wrPos - Len(pipe))
SinkAccepted ==
    IF SourceIsOrig THEN extGot \o pipe ELSE origOut

IsPrefix(a, b) == Len(a) <= Len(b) /\ a = Take(b, Len(a))

\* C16: prefix invariant of the copy loop.  What the sink has accepted is a
\* prefix of what was read from the source; while a chunk is being written
\* the accepted bytes followed by the rest of the chunk are the bytes read;
\* and a read is in flight only when every byte read before was accepted.
C16_PrefixInvariant ==
    /\ IsPrefix(SinkAccepted, SourceReadSoFar)
    /\ (fpc \in {"wbound", "writing"} =>
            SinkAccepted \o chunk = SourceReadSoFar)
    /\ (fpc \in {"top", "reading"} => SinkAccepted = SourceReadSoFar)

C16_Witness ==
    /\ ~SourceIsOrig /\ fpc = "wbound" /\ Len(pipe) = 0 /\ wrPos = ChunkSize
    /\ Len(origOut) = 1 /\ Len(chunk) = ChunkSize - 1

\* The Forwarder has a read or write on the original stream in flight.
OrigIoInFlight ==
    IF SourceIsOrig THEN fpc = "reading" ELSE fpc = "writing"

\* join() or detach() (also the detach() inside close()) has returned the
\* original stream to the caller.
HandedBack == Len(joinLog) > 0 \/ stopReq

\* C18: exclusive access to the original stream.  Once join() or detach()
\* has handed the stream back, the Forwarder has no read or write on it in
\* flight; close() does not close it while one is in flight.
C18_ExclusiveAccess ==
    mode \in ValidModes =>
        /\ (HandedBack => ~OrigIoInFlight)
        /\ ((closeCalled /\ ~origOpen) => ~OrigIoInFlight)

\* C19: join() does not deadlock.  When the original stream's calls return
\* and the external holder eventually closes its copy of the descriptor, a
\* caller blocked in join() eventually gets its return.
C19_JoinReturns ==
    (cpc = "joining") ~> (cpc = "idle" /\ lastOp = "join")

C19_Witness ==
    /\ IsRead(mode) /\ cpc = "joining" /\ fpc = "writing"
    /\ PipeSpace = 0 /\ ~fileOpen /\ chunk # <<>>

====
